---- MODULE Spec2Model ----
(***************************************************************************)
(* Model of 2013-12-09-divide-and-concquer-svd.cpp: four exported wrappers *)
(* around arma::svd (baseSVD, dcSVD, cxBaseSVD, cxDcSVD) and the two R     *)
(* blocks that build a matrix X and hand the wrappers to microbenchmark.   *)
(*                                                                         *)
(* arma::svd and microbenchmark are external.  arma::svd is an oracle: for *)
(* the current X it maps each method string to an outcome (the bool it     *)
(* returns and what it leaves in U, S, V).  microbenchmark is a driver     *)
(* that evaluates its expressions one at a time, in any order, any number  *)
(* of times up to MaxTimes: the source passes no repetition count.         *)
(***************************************************************************)
EXTENDS Integers, Sequences, FiniteSets

\* ---- bounds ----
MaxTimes == 2      \* evaluations of one expression within one benchmark
NumMats  == 2      \* distinct matrices of each element type
MaxVal   == 1      \* singular values range over 0..MaxVal
MaxLen   == 1      \* length of a singular-value vector

\* ---- values ----
Fns     == {"baseSVD", "dcSVD", "cxBaseSVD", "cxDcSVD"}
Methods == {"standard", "dc"}
NoFn    == "none"
NoMat   == [type |-> "none", id |-> 0]
RealMats == [type : {"real"}, id : 1..NumMats]
CxMats   == [type : {"cx"}, id : 1..NumMats]

\* arma::vec values: descending sequences over 0..MaxVal, length <= MaxLen
SVals == UNION { { s \in [1..n -> 0..MaxVal] :
                     \A i \in 1..n : \A j \in 1..n : i <= j => s[i] >= s[j] }
                 : n \in 0..MaxLen }
Fill == {"empty", "filled"}

\* what one arma::svd call does: the bool it returns, the S it leaves, and
\* whether it leaves U and V filled or reset
Outcomes == [ok : BOOLEAN, S : SVals, UV : Fill]

NoRet == [kind |-> "none", val |-> <<>>]

VARIABLES line,    \* position in the R script
          X,       \* the R variable X
          lib,     \* arma::svd on the current X: method -> outcome
          fn,      \* wrapper being evaluated, or NoFn
          pc,      \* position inside the wrapper
          U, S, V, \* the wrapper's locals
          status,  \* the bool arma::svd returned (the wrapper drops it)
          calls,   \* arma::svd calls of this invocation: <<[method, arg]>>
          ret,     \* what this invocation gave back to R
          last,    \* per wrapper, the result of its latest evaluation
          evals,   \* per wrapper, evaluations completed in this benchmark
          inputs   \* matrices arma::svd has been given in this benchmark

vars == <<line, X, lib, fn, pc, U, S, V, status, calls, ret, last, evals, inputs>>

\* the method string each wrapper passes (dcSVD passing "standard")
MethodAllStandard(f) == "standard"

Method(f) == IF f \in {"baseSVD", "cxBaseSVD"} THEN "standard" ELSE "dc"

\* the expressions handed to microbenchmark at each benchmark line
Exprs(l) == IF l = "l45" THEN {"baseSVD", "dcSVD"}
            ELSE IF l = "l73" THEN {"cxBaseSVD", "cxDcSVD"}
            ELSE {}

Init ==
  /\ line = "l44"
  /\ X = NoMat
  /\ lib = [m \in Methods |-> [ok |-> FALSE, S |-> <<>>, UV |-> "empty"]]
  /\ fn = NoFn
  /\ pc = "idle"
  /\ U = "empty" /\ S = <<>> /\ V = "empty"
  /\ status = FALSE
  /\ calls = <<>>
  /\ ret = NoRet
  /\ last = [f \in Fns |-> NoRet]
  /\ evals = [f \in Fns |-> 0]
  /\ inputs = {}

\* X <- matrix(rnorm(16e4), 4e2, 4e2)
AssignReal ==
  /\ line = "l44"
  /\ X' \in RealMats
  /\ lib' \in [Methods -> Outcomes]
  /\ line' = "l45"
  /\ last' = [f \in Fns |-> NoRet]
  /\ evals' = [f \in Fns |-> 0]
  /\ inputs' = {}
  /\ UNCHANGED <<fn, pc, U, S, V, status, calls, ret>>

\* X <- A + 1i * B
AssignCx ==
  /\ line = "l72"
  /\ X' \in CxMats
  /\ lib' \in [Methods -> Outcomes]
  /\ line' = "l73"
  /\ last' = [f \in Fns |-> NoRet]
  /\ evals' = [f \in Fns |-> 0]
  /\ inputs' = {}
  /\ UNCHANGED <<fn, pc, U, S, V, status, calls, ret>>

\* microbenchmark evaluates one of its expressions: the wrapper is entered
\* and declares its locals (arma::mat U, V; arma::vec S;)
Declare(f) ==
  /\ pc = "idle"
  /\ f \in Exprs(line)
  /\ evals[f] < MaxTimes
  /\ fn' = f
  /\ pc' = "declared"
  /\ U' = "empty" /\ S' = <<>> /\ V' = "empty"
  /\ calls' = <<>>
  /\ ret' = NoRet
  /\ UNCHANGED <<line, X, lib, status, last, evals, inputs>>

\* arma::svd working in place on the caller's matrix
CallSvdInPlace ==
  /\ pc = "declared"
  /\ calls' = Append(calls, [method |-> Method(fn), arg |-> X])
  /\ inputs' = inputs \cup {X}
  /\ status' = lib[Method(fn)].ok
  /\ U' = lib[Method(fn)].UV
  /\ S' = lib[Method(fn)].S
  /\ V' = lib[Method(fn)].UV
  /\ pc' = "called"
  /\ X' = [X EXCEPT !.id = 0]
  /\ UNCHANGED <<line, lib, fn, ret, last, evals>>

\* arma::svd(U, S, V, X, method);
CallSvd ==
  /\ pc = "declared"
  /\ calls' = Append(calls, [method |-> Method(fn), arg |-> X])
  /\ inputs' = inputs \cup {X}
  /\ status' = lib[Method(fn)].ok
  /\ U' = lib[Method(fn)].UV
  /\ S' = lib[Method(fn)].S
  /\ V' = lib[Method(fn)].UV
  /\ pc' = "called"
  /\ UNCHANGED <<line, X, lib, fn, ret, last, evals>>

\* a wrapper that checks the bool and stops on failure
ReturnChecked ==
  /\ pc = "called"
  /\ ret' = IF status THEN [kind |-> "value", val |-> S]
                      ELSE [kind |-> "error", val |-> <<>>]
  /\ pc' = "returned"
  /\ UNCHANGED <<line, X, lib, fn, U, S, V, status, calls, last, evals, inputs>>

\* return S;
Return ==
  /\ pc = "called"
  /\ ret' = [kind |-> "value", val |-> S]
  /\ pc' = "returned"
  /\ UNCHANGED <<line, X, lib, fn, U, S, V, status, calls, last, evals, inputs>>

\* microbenchmark takes the value back and the evaluation is over
Collect ==
  /\ pc = "returned"
  /\ last' = [last EXCEPT ![fn] = ret]
  /\ evals' = [evals EXCEPT ![fn] = @ + 1]
  /\ fn' = NoFn
  /\ pc' = "idle"
  /\ UNCHANGED <<line, X, lib, U, S, V, status, calls, ret, inputs>>

\* microbenchmark(...) returns and the script moves on
FinishBench ==
  /\ pc = "idle"
  /\ line \in {"l45", "l73"}
  /\ line' = IF line = "l45" THEN "l72" ELSE "end"
  /\ UNCHANGED <<X, lib, fn, pc, U, S, V, status, calls, ret, last, evals, inputs>>

Next ==
  \/ AssignReal
  \/ AssignCx
  \/ \E f \in Fns : Declare(f)
  \/ CallSvd
  \/ Return
  \/ Collect
  \/ FinishBench

Spec == Init /\ [][Next]_vars

TypeOK ==
  /\ line \in {"l44", "l45", "l72", "l73", "end"}
  /\ X \in RealMats \cup CxMats \cup {NoMat}
  /\ fn \in Fns \cup {NoFn}
  /\ pc \in {"idle", "declared", "called", "returned"}
  /\ S \in SVals
  /\ evals \in [Fns -> 0..MaxTimes]

\* ---- properties ----

BaseFns == {"baseSVD", "cxBaseSVD"}
DcFns   == {"dcSVD", "cxDcSVD"}
Pairs   == {<<"baseSVD", "dcSVD">>, <<"cxBaseSVD", "cxDcSVD">>}

\* C1: a wrapper makes exactly one arma::svd call, on X itself, with
\* "standard" (baseSVD, cxBaseSVD) or "dc" (dcSVD, cxDcSVD), and returns
\* exactly the S that call produced; when the library yields the same S for
\* both methods, the two wrappers of a pair return the same result.
C1_OneCallReturnsS ==
  /\ pc = "declared" => calls = <<>>
  /\ pc \in {"called", "returned"} =>
       /\ Len(calls) = 1
       /\ calls[1].arg = X
       /\ fn \in BaseFns => calls[1].method = "standard"
       /\ fn \in DcFns => calls[1].method = "dc"
  /\ pc = "returned" =>
       ret = [kind |-> "value", val |-> lib[calls[1].method].S]
  /\ \A f \in Fns : last[f] # NoRet =>
       last[f] = [kind |-> "value",
                  val |-> lib[IF f \in BaseFns THEN "standard" ELSE "dc"].S]
  /\ \A p \in Pairs :
       (/\ last[p[1]] # NoRet
        /\ last[p[2]] # NoRet
        /\ lib["standard"].S = lib["dc"].S) => last[p[1]] = last[p[2]]

\* both wrappers of the real pair have returned, the library gave the same
\* non-empty S for both methods, and the two results are that S
C1_Witness ==
  /\ last["baseSVD"] # NoRet
  /\ last["dcSVD"] # NoRet
  /\ lib["standard"].S = lib["dc"].S
  /\ lib["standard"].S # <<>>
  /\ last["baseSVD"] = last["dcSVD"]
  /\ last["baseSVD"].val = lib["dc"].S

\* C9: while a benchmark runs, no step changes X; every arma::svd call of
\* the benchmark receives the same matrix; and each invocation starts from
\* its own empty U, S, V whatever earlier invocations left in theirs.
C9_InputUnchanged ==
  [][ /\ line \in {"l45", "l73"} => X' = X
      /\ Cardinality(inputs') <= 1
      /\ inputs' \subseteq {X'}
      /\ pc' = "declared" => (U' = "empty" /\ S' = <<>> /\ V' = "empty") ]_vars

\* both wrappers have been evaluated on X, an earlier invocation ended with
\* a non-empty S and filled U, and a new invocation has just declared its
\* locals
C9_Witness ==
  /\ line = "l45"
  /\ evals["baseSVD"] >= 1
  /\ evals["dcSVD"] >= 1
  /\ inputs = {X}
  /\ last["baseSVD"].val # <<>>
  /\ lib["standard"].UV = "filled"
  /\ pc = "declared"
  /\ S = <<>>
  /\ U = "empty"

\* C10: whatever bool arma::svd returned, the wrapper raises nothing and
\* returns the S the library left behind, and a "dc" wrapper never calls
\* the library again with "standard".
C10_NoStatusCheck ==
  /\ pc = "returned" =>
       /\ ret.kind = "value"
       /\ ret.val = S
       /\ fn \in DcFns => \A i \in DOMAIN calls : calls[i].method = "dc"
  /\ \A f \in Fns : last[f].kind # "error"

\* the complex "dc" call failed, left a non-empty S, and cxDcSVD returned it
C10_Witness ==
  /\ pc = "returned"
  /\ fn = "cxDcSVD"
  /\ status = FALSE
  /\ S # <<>>
  /\ ret = [kind |-> "value", val |-> S]
  /\ Len(calls) = 1

====
